---- MODULE Spec2Model ----
(***************************************************************************)
(* Storefront mini-app: cart store, pricing, checkout validation, order    *)
(* submission and catalog loading, as implemented by the App components    *)
(* of the repository.  The repository holds several variants of the App    *)
(* component; `variant` says which one a behaviour runs:                    *)
(*   "App"   src/src/App.tsx:86    keyed cart {product, qty}, setQty        *)
(*   "List"  src/src/App.tsx:1002  list cart, changeQty(id, delta)          *)
(*   "p000"  src/unnamed/part_000  keyed flat cart, inc / dec / remove      *)
(*   "p001"  src/unnamed/part_001  keyed cart, validate() without trim      *)
(*   "p003"  src/unnamed/part_003  keyed flat cart kept in localStorage     *)
(*   "p005"  src/unnamed/part_005  keyed cart, add / changeQty(id, qty)     *)
(*   "p002"  src/unnamed/part_002  list cart, checks inside submitOrder     *)
(*   "p004"  src/unnamed/part_004  catalog load that keeps the cache on a   *)
(*                                 timeout                                  *)
(* The order proxy src/api/order.js is modelled by its handler.            *)
(***************************************************************************)
EXTENDS Integers, Sequences, FiniteSets, TLC

VARIABLES
    variant,        \* which App component runs
    tab,            \* useState tab: "catalog" | "cart" | "checkout"
    loading,        \* useState loading
    error,          \* useState error ("" = none)
    products,       \* useState products: sequence of Product
    cart,           \* useState cart, in insertion order (Object.values order)
    customerName,   \* checkout form fields: sequences of characters
    phone,
    address,
    comment,
    sending,        \* useState sending
    toast,          \* last message shown (toast / modal / alert)
    total,          \* memoised sum of the goods
    delivery,       \* memoised delivery fee
    grandTotal,     \* memoised total with delivery
    inFlight,       \* number of order requests awaiting their response
    sent,           \* <<payload>> of the latest request awaited, or <<>>
    loadingHint,    \* useState loadingHint
    cache,          \* localStorage farm_products_cache_v1: <<>> or <<products>>
                    \* (LoadSpec: <<[ts, products]>>, the snapshot as it is stored)
    cartStore,      \* localStorage farm_cart_v1 (part_003): the saved cart
    catalogReq,     \* the catalog request: "none" | "pending" | "done"
    envToken,       \* import.meta.env.VITE_API_TOKEN is set
    now,            \* Date.now(), in ms
    fn,             \* pure-function harness: function applied, its argument, result
    arg,
    res

vars == <<variant, tab, loading, error, products, cart, customerName, phone,
          address, comment, sending, toast, total, delivery, grandTotal,
          inFlight, sent, loadingHint, cache, cartStore, catalogReq, envToken, now,
          fn, arg, res>>

appVars == <<tab, loading, error, products, customerName, phone, address,
             comment, sending, toast, total, delivery, grandTotal, inFlight,
             sent, loadingHint, cache, cartStore, catalogReq, envToken, now>>

pureVars == <<fn, arg, res>>

----------------------------------------------------------------------------
(* Bounds of the model *)

MaxQty == 2          \* largest quantity of one cart entry that is explored
MaxSubtotal == 2100  \* largest subtotal given to the delivery rule
MaxInFlight == 2     \* most order requests awaiting a response at once

(* Program constants *)

DELIVERY_FEE == 200
FREE_DELIVERY_FROM == 2000

----------------------------------------------------------------------------
(* Products and catalogs *)

Ids == {"P1", "P2"}

Product(i, pr) == [id |-> i, price |-> pr]

\* Two answers of the products API: the price of P1 differs between them.
\* Two units reach the free-delivery threshold at one price and not at the
\* other.  The catalog shown to the user lists one product; the cart store
\* is exercised with two products under CartSpec.
CatalogA == <<Product("P1", 1000)>>
CatalogB == <<Product("P1", 900)>>
Catalogs == {CatalogA, CatalogB}

AllProducts == UNION {{c[i] : i \in 1..Len(c)} : c \in Catalogs}

\* the products handed to the cart store when it is exercised alone
CartProducts == AllProducts \cup {Product("P2", 1000)}

Range(s) == {s[i] : i \in 1..Len(s)}

RECURSIVE SumSeq(_)
SumSeq(s) == IF s = <<>> THEN 0 ELSE Head(s) + SumSeq(Tail(s))

----------------------------------------------------------------------------
(* Keyed carts (Record<string, CartItem>): a function from the keys present *)
(* to their entries, as a JavaScript object is.                             *)

EmptyCart == [k \in {} |-> 0]

HasKey(c, k) == k \in DOMAIN c

Get(c, k) == c[k]

\* next[k] = v
Put(c, k, v) == [x \in DOMAIN c \cup {k} |-> IF x = k THEN v ELSE c[x]]

\* delete next[k]
Delete(c, k) == [x \in DOMAIN c \ {k} |-> c[x]]

\* Object.values(cart), the keys enumerated in the order of IdOrder
IdOrder == <<"P1", "P2">>

Values(c) ==
    LET present(k) == k \in DOMAIN c
        keys == SelectSeq(IdOrder, present)
    IN [i \in 1..Len(keys) |-> c[keys[i]]]

----------------------------------------------------------------------------
(* Cart store of "App" and "p001": Record<string, {product, qty}> *)

\* qtyOf: cart[productId]?.qty || 0
qtyOf(c, productId) == IF HasKey(c, productId) THEN Get(c, productId).qty ELSE 0

addToCart_App(c, p) ==
    Put(c, p.id, [product |-> p, qty |-> qtyOf(c, p.id) + 1])

\* setQty with the deletion test off by one (qty < 0)
setQty_App_KeepsZero(c, productId, qty) ==
    IF qty < 0 THEN Delete(c, productId)
    ELSE Put(c, productId,
             IF HasKey(c, productId)
             THEN [Get(c, productId) EXCEPT !.qty = qty]
             ELSE [qty |-> qty])

\* next[productId] = { ...next[productId], qty }: an absent key yields an
\* entry that has a qty and no product.
setQty_App(c, productId, qty) ==
    IF qty <= 0 THEN Delete(c, productId)
    ELSE Put(c, productId,
             IF HasKey(c, productId)
             THEN [Get(c, productId) EXCEPT !.qty = qty]
             ELSE [qty |-> qty])

----------------------------------------------------------------------------
(* Cart store of "p005": the same record, written by add and changeQty *)

add_p005(c, p) ==
    Put(c, p.id, [product |-> p, qty |-> qtyOf(c, p.id) + 1])

\* changeQty with the deletion test off by one (qty < 0)
changeQty_p005_KeepsZero(c, id, qty) ==
    IF qty < 0 THEN Delete(c, id)
    ELSE Put(c, id,
             IF HasKey(c, id) THEN [Get(c, id) EXCEPT !.qty = qty] ELSE [qty |-> qty])

changeQty_p005(c, id, qty) ==
    IF qty <= 0 THEN Delete(c, id)
    ELSE Put(c, id,
             IF HasKey(c, id) THEN [Get(c, id) EXCEPT !.qty = qty] ELSE [qty |-> qty])

----------------------------------------------------------------------------
(* Cart store of "List": CartItem[] with CartItem = Product & {qty} *)

InList(c, id) == \E i \in 1..Len(c) : c[i].id = id

\* addToCart without the search for an entry of the same id
addToCart_List_Appends(c, p) ==
    Append(c, [id |-> p.id, price |-> p.price, qty |-> 1])

addToCart_List(c, p) ==
    IF InList(c, p.id)
    THEN [i \in 1..Len(c) |->
            IF c[i].id = p.id THEN [c[i] EXCEPT !.qty = c[i].qty + 1] ELSE c[i]]
    ELSE Append(c, [id |-> p.id, price |-> p.price, qty |-> 1])

changeQty_List(c, id, delta) ==
    LET mapped == [i \in 1..Len(c) |->
                     IF c[i].id = id THEN [c[i] EXCEPT !.qty = c[i].qty + delta]
                     ELSE c[i]]
        positive(e) == e.qty > 0
    IN SelectSeq(mapped, positive)

removeItem_List(c, id) == LET other(e) == e.id # id IN SelectSeq(c, other)

----------------------------------------------------------------------------
(* Cart store of "p002": CartItem[], as in "List" *)

addToCart_p002(c, p) ==
    IF \E i \in 1..Len(c) : c[i].id = p.id
    THEN [i \in 1..Len(c) |->
            IF c[i].id = p.id THEN [c[i] EXCEPT !.qty = c[i].qty + 1] ELSE c[i]]
    ELSE Append(c, [id |-> p.id, price |-> p.price, qty |-> 1])

changeQty_p002(c, id, delta) ==
    LET mapped == [i \in 1..Len(c) |->
                     IF c[i].id = id THEN [c[i] EXCEPT !.qty = c[i].qty + delta]
                     ELSE c[i]]
        positive(e) == e.qty > 0
    IN SelectSeq(mapped, positive)

removeItem_p002(c, id) == LET other(e) == e.id # id IN SelectSeq(c, other)

----------------------------------------------------------------------------
(* Cart store of "p000": Record<string, {id, price, qty}> *)

\* addToCart that starts the quantity again at 1
addToCart_p000_Restarts(c, p) ==
    Put(c, p.id, [id |-> p.id, price |-> p.price, qty |-> 1])

addToCart_p000(c, p) ==
    Put(c, p.id,
        IF HasKey(c, p.id)
        THEN [Get(c, p.id) EXCEPT !.qty = Get(c, p.id).qty + 1]
        ELSE [id |-> p.id, price |-> p.price, qty |-> 1])

inc_p000(c, id) ==
    IF ~HasKey(c, id) THEN c
    ELSE Put(c, id, [Get(c, id) EXCEPT !.qty = Get(c, id).qty + 1])

dec_p000(c, id) ==
    IF ~HasKey(c, id) THEN c
    ELSE IF Get(c, id).qty <= 1 THEN Delete(c, id)
         ELSE Put(c, id, [Get(c, id) EXCEPT !.qty = Get(c, id).qty - 1])

remove_p000(c, id) == Delete(c, id)

----------------------------------------------------------------------------
(* Cart store of "p003": Record<string, {id, price, qty}>, the snapshot is  *)
(* rewritten from the product on every add.                                 *)

addToCart_p003(c, p) ==
    Put(c, p.id, [id |-> p.id, price |-> p.price, qty |-> qtyOf(c, p.id) + 1])

\* decFromCart that removes the entry one unit early (nextQty <= 1)
decFromCart_p003_RemovesAtTwo(c, id) ==
    IF ~HasKey(c, id) THEN c
    ELSE LET nextQty == Get(c, id).qty - 1
         IN IF nextQty <= 1 THEN Delete(c, id)
            ELSE Put(c, id, [Get(c, id) EXCEPT !.qty = nextQty])

decFromCart_p003(c, id) ==
    IF ~HasKey(c, id) THEN c
    ELSE LET nextQty == Get(c, id).qty - 1
         IN IF nextQty <= 0 THEN Delete(c, id)
            ELSE Put(c, id, [Get(c, id) EXCEPT !.qty = nextQty])

removeFromCart_p003(c, id) == Delete(c, id)

----------------------------------------------------------------------------
(* Views of a cart that do not depend on the variant *)

KeyedVariants == {"App", "p000", "p001", "p003", "p005"}

\* the entries, as {product, qty} or {id, price, qty} records
Entries(v, c) == IF v \in KeyedVariants THEN Values(c) ELSE c

\* {} or []
EmptyCartOf(v) == IF v \in KeyedVariants THEN EmptyCart ELSE <<>>

\* the unit price an entry carries
EntryPrice(v, e) == IF v \in {"App", "p001", "p005"} THEN e.product.price ELSE e.price

\* the product id an entry stands for
EntryId(v, e) == IF v \in {"App", "p001", "p005"} THEN e.product.id ELSE e.id

----------------------------------------------------------------------------
(* Pricing: the memoised totals of each variant *)

\* cartItems.reduce((s, it) => s + it.qty * it.product.price, 0)
total_App(c) ==
    SumSeq([i \in 1..Len(Values(c)) |-> Values(c)[i].qty * Values(c)[i].product.price])

\* the fee charged whenever the goods are below the threshold
delivery_App_NoEmptyCheck(t) == IF t < FREE_DELIVERY_FROM THEN DELIVERY_FEE ELSE 0

delivery_App(t) ==
    IF t <= 0 THEN 0
    ELSE IF t < FREE_DELIVERY_FROM THEN DELIVERY_FEE ELSE 0

\* the goods alone, the fee left out
grandTotal_App_NoDelivery(t, d) == t

grandTotal_App(t, d) == t + d

delivery_p001(t) == IF t > 0 /\ t < FREE_DELIVERY_FROM THEN DELIVERY_FEE ELSE 0

\* Object.values(cart).reduce((s, x) => s + x.price * x.qty, 0)
subtotal_p003(c) ==
    SumSeq([i \in 1..Len(Values(c)) |-> Values(c)[i].price * Values(c)[i].qty])

delivery_p003(sub) ==
    IF sub <= 0 THEN 0
    ELSE IF sub < FREE_DELIVERY_FROM THEN DELIVERY_FEE ELSE 0

\* const total = subtotal + delivery
total_p003(sub, d) == sub + d

\* the delivery rule the variant v applies to a sum of goods t
deliveryOf(v, t) ==
    CASE v = "App"  -> delivery_App(t)
      [] v = "p001" -> delivery_p001(t)
      [] v = "p003" -> delivery_p003(t)

\* the sum of the goods the variant v derives from its cart
goodsOf(v, c) == IF v = "p003" THEN subtotal_p003(c) ELSE total_App(c)

\* the sum with delivery
sumWithDelivery(v, t, d) == IF v = "p003" THEN total_p003(t, d) ELSE grandTotal_App(t, d)

----------------------------------------------------------------------------
(* The count shown on the cart tab *)

\* cartItems.reduce((s, it) => s + it.qty, 0)
cartCount_App(c) == SumSeq([i \in 1..Len(Values(c)) |-> Values(c)[i].qty])

\* cart.reduce((s, i) => s + i.qty, 0)
cartCount_List(c) == SumSeq([i \in 1..Len(c) |-> c[i].qty])

\* part_005 shows cartItems.length
badge_p005(c) == Len(Values(c))

badgeOf(v, c) ==
    CASE v = "p005" -> badge_p005(c)
      [] v \in {"List", "p002"} -> cartCount_List(c)
      [] OTHER -> cartCount_App(c)

----------------------------------------------------------------------------
(* State after construction of the component (the useState initial values) *)

AppInit ==
    /\ tab = "catalog"
    /\ loading = TRUE
    /\ error = ""
    /\ products = <<>>
    /\ customerName = <<>>
    /\ phone = <<>>
    /\ address = <<>>
    /\ comment = <<>>
    /\ sending = FALSE
    /\ toast = "none"
    /\ total = 0
    /\ delivery = 0
    /\ grandTotal = 0
    /\ inFlight = 0
    /\ sent = <<>>
    /\ loadingHint = ""
    /\ catalogReq = "none"
    /\ now = 1

PureIdle == fn = "none" /\ arg = 0 /\ res = "none"

----------------------------------------------------------------------------
(* CartSpec: the cart store alone.  Every handler that writes the cart is   *)
(* called with any product and any integer of a small range, starting from  *)
(* the empty cart.                                                          *)

CartVariants == {"App", "List", "p000", "p002", "p003", "p005"}

ListVariants == {"List", "p002"}

QtyOfId(v, c, id) ==
    IF v \in ListVariants
    THEN (IF InList(c, id) THEN c[CHOOSE i \in 1..Len(c) : c[i].id = id].qty ELSE 0)
    ELSE qtyOf(c, id)

CartInit ==
    /\ variant \in CartVariants
    /\ cart = EmptyCartOf(variant)
    /\ envToken = TRUE
    /\ cache = <<>>
    /\ cartStore = EmptyCart
    /\ AppInit
    /\ PureIdle

\* fn, arg and res keep the last call made: the handler, the product id and
\* the quantity or the delta it was given
Called(handler, id, n) == fn' = handler /\ arg' = id /\ res' = n

CartAdd(p) ==
    /\ QtyOfId(variant, cart, p.id) < MaxQty
    /\ cart' = CASE variant = "App"  -> addToCart_App(cart, p)
                 [] variant = "List" -> addToCart_List(cart, p)
                 [] variant = "p000" -> addToCart_p000(cart, p)
                 [] variant = "p002" -> addToCart_p002(cart, p)
                 [] variant = "p003" -> addToCart_p003(cart, p)
                 [] variant = "p005" -> add_p005(cart, p)
    /\ Called("add", p.id, p.price)
    /\ UNCHANGED <<variant, appVars>>

CartSetQty(id, qty) ==
    /\ variant \in {"App", "p005"}
    /\ cart' = IF variant = "App" THEN setQty_App(cart, id, qty)
               ELSE changeQty_p005(cart, id, qty)
    /\ Called("setQty", id, qty)
    /\ UNCHANGED <<variant, appVars>>

CartChangeQty(id, delta) ==
    /\ variant \in ListVariants
    /\ QtyOfId(variant, cart, id) + delta <= MaxQty
    /\ cart' = IF variant = "List" THEN changeQty_List(cart, id, delta)
               ELSE changeQty_p002(cart, id, delta)
    /\ Called("changeQty", id, delta)
    /\ UNCHANGED <<variant, appVars>>

CartInc(id) ==
    /\ variant = "p000"
    /\ QtyOfId(variant, cart, id) < MaxQty
    /\ cart' = inc_p000(cart, id)
    /\ Called("inc", id, 1)
    /\ UNCHANGED <<variant, appVars>>

CartDec(id) ==
    /\ variant \in {"p000", "p003"}
    /\ cart' = IF variant = "p000" THEN dec_p000(cart, id) ELSE decFromCart_p003(cart, id)
    /\ Called("dec", id, -1)
    /\ UNCHANGED <<variant, appVars>>

CartRemove(id) ==
    /\ variant \in ListVariants \cup {"p000", "p003"}
    /\ cart' = CASE variant = "List" -> removeItem_List(cart, id)
                 [] variant = "p000" -> remove_p000(cart, id)
                 [] variant = "p002" -> removeItem_p002(cart, id)
                 [] variant = "p003" -> removeFromCart_p003(cart, id)
    /\ Called("remove", id, 0)
    /\ UNCHANGED <<variant, appVars>>

\* setCart({}) / setCart([])
CartClear ==
    /\ cart' = EmptyCartOf(variant)
    /\ Called("clear", "", 0)
    /\ UNCHANGED <<variant, appVars>>

CartNext ==
    \/ \E p \in CartProducts : CartAdd(p)
    \/ \E id \in Ids, qty \in -1..MaxQty : CartSetQty(id, qty)
    \/ \E id \in Ids, delta \in -MaxQty..1 : CartChangeQty(id, delta)
    \/ \E id \in Ids : CartInc(id)
    \/ \E id \in Ids : CartDec(id)
    \/ \E id \in Ids : CartRemove(id)
    \/ CartClear

CartSpec == CartInit /\ [][CartNext]_vars

----------------------------------------------------------------------------
(* PureSpec: the delivery rule applied to every sum of goods up to          *)
(* MaxSubtotal.                                                             *)

PureInit ==
    /\ variant \in {"App", "p001", "p003"}
    /\ cart = EmptyCart
    /\ envToken = TRUE
    /\ cache = <<>>
    /\ cartStore = EmptyCart
    /\ AppInit
    /\ fn = "none"
    /\ arg \in 0..MaxSubtotal
    /\ res = "none"

ApplyDelivery ==
    /\ fn = "none"
    /\ fn' = "delivery"
    /\ res' = deliveryOf(variant, arg)
    /\ UNCHANGED <<variant, cart, appVars, arg>>

PureNext == ApplyDelivery

PureSpec == PureInit /\ [][PureNext]_vars

----------------------------------------------------------------------------
(* Strings are sequences of characters; String.prototype.trim removes the   *)
(* white space at both ends.                                                *)

RECURSIVE trimStart(_)
trimStart(str) ==
    IF str # <<>> /\ Head(str) = " " THEN trimStart(Tail(str)) ELSE str

RECURSIVE trimEnd(_)
trimEnd(str) ==
    IF str # <<>> /\ str[Len(str)] = " "
    THEN trimEnd(SubSeq(str, 1, Len(str) - 1))
    ELSE str

trim(str) == trimEnd(trimStart(str))

\* What the user types into the checkout form: nothing, or an acceptable
\* value with white space around it.
NameInputs == {<<>>, <<" ", "A", "l", " ">>}
PhoneInputs == {<<>>, <<" ", "1", "2", "3", "4", "5", "6">>}
AddressInputs == {<<>>, <<"L", "e", "n", "i", "n", " ">>}
CommentInputs == {<<>>, <<" ", "c", " ">>}

----------------------------------------------------------------------------
(* Checkout validation *)

\* validateCheckout (App.tsx): the message, or "ok" for null
validateCheckout_App(nm, ph, addr, items) ==
    IF Len(trim(nm)) < 2 THEN "NameTooShort"
    ELSE IF Len(trim(ph)) < 6 THEN "PhoneTooShort"
    ELSE IF Len(trim(addr)) < 5 THEN "AddressTooShort"
    ELSE IF Len(items) = 0 THEN "CartEmpty"
    ELSE "ok"

\* validate without its test of the cart
validate_p001_NoCartCheck(nm, ph, addr, items) ==
    IF Len(nm) < 2 THEN "NameTooShort"
    ELSE IF Len(ph) < 6 THEN "PhoneTooShort"
    ELSE IF Len(addr) < 5 THEN "AddressTooShort"
    ELSE "ok"

\* validate (part_001): the lengths of the untrimmed fields
validate_p001(nm, ph, addr, items) ==
    IF Len(nm) < 2 THEN "NameTooShort"
    ELSE IF Len(ph) < 6 THEN "PhoneTooShort"
    ELSE IF Len(addr) < 5 THEN "AddressTooShort"
    ELSE IF Len(items) = 0 THEN "CartEmpty"
    ELSE "ok"

\* the checks that open submitOrder of part_003: no test of the cart
validate_p003(nm, ph, addr, tokenSet) ==
    IF Len(trim(nm)) < 2 THEN "NameTooShort"
    ELSE IF Len(trim(ph)) < 6 THEN "PhoneTooShort"
    ELSE IF Len(trim(addr)) < 5 THEN "AddressTooShort"
    ELSE IF ~tokenSet THEN "NoToken"
    ELSE "ok"

ValidationErrors ==
    {"NameTooShort", "PhoneTooShort", "AddressTooShort", "CartEmpty", "NoToken"}

----------------------------------------------------------------------------
(* Order payloads *)

items_App(c) ==
    [i \in 1..Len(Values(c)) |->
        LET it == Values(c)[i]
        IN [id |-> it.product.id, price |-> it.product.price, qty |-> it.qty,
            sum |-> it.qty * it.product.price]]

payload_App(nm, ph, addr, cm, c, t, d, g) ==
    [name |-> trim(nm), phone |-> trim(ph), address |-> trim(addr),
     comment |-> trim(cm), items |-> items_App(c),
     total |-> t, delivery |-> d, grandTotal |-> g]

\* part_001 sends the fields and the cart entries as they are
payload_p001(nm, ph, addr, cm, c, t, d, g) ==
    [name |-> nm, phone |-> ph, address |-> addr, comment |-> cm,
     items |-> Values(c), total |-> t, delivery |-> d, grandTotal |-> g]

items_p003(c) ==
    [i \in 1..Len(Values(c)) |->
        LET x == Values(c)[i]
        IN [id |-> x.id, price |-> x.price, qty |-> x.qty, sum |-> x.price * x.qty]]

\* part_003 sends total = subtotal + delivery and no other sum
payload_p003(nm, ph, addr, cm, c, tot) ==
    [name |-> trim(nm), phone |-> trim(ph), address |-> trim(addr),
     comment |-> trim(cm), items |-> items_p003(c), total |-> tot]

----------------------------------------------------------------------------
(* Answers of the network *)

PRODUCTS_CACHE_TTL_MS == 600000

\* age of the cached catalog when the component mounts, in ms
CacheAges == {0, PRODUCTS_CACHE_TTL_MS - 1, PRODUCTS_CACHE_TTL_MS}

\* An order request ends rejected (fetch throws), or with a response: its
\* status is a success or not, its body is {ok: true}, {error: ...} or
\* something without either ({} or no JSON at all).
Outcomes ==
    {[rejected |-> TRUE, ok |-> FALSE, body |-> "none"]} \cup
    {[rejected |-> FALSE, ok |-> b, body |-> d] :
        b \in BOOLEAN, d \in {"ok", "error", "empty"}}

\* App.tsx: if (!res.ok) throw ...; if (data?.error) throw ...
succeeded_App(o) == ~o.rejected /\ o.ok /\ o.body # "error"

\* part_001 awaits fetch and does not read the response
succeeded_p001(o) == ~o.rejected

\* part_003: if (!res.ok || data?.error) { ...; return; }
succeeded_p003(o) == ~o.rejected /\ ~(~o.ok \/ o.body = "error")

succeededOf(v, o) ==
    CASE v = "App"  -> succeeded_App(o)
      [] v = "p001" -> succeeded_p001(o)
      [] v = "p003" -> succeeded_p003(o)

----------------------------------------------------------------------------
(* Spec: the App component, driven by the user and by the network *)

AppVariants == {"App", "p001", "p003"}

cartVars == <<cart, total, delivery, grandTotal, cartStore>>
formVars == <<customerName, phone, address, comment>>
netVars == <<inFlight, sent>>
loadVars == <<loading, error, products, loadingHint, cache, catalogReq>>
fixedVars == <<variant, envToken, now, fn, arg, res>>

Init ==
    /\ variant \in AppVariants
    /\ envToken \in BOOLEAN
    /\ (variant # "p003" => envToken)
    /\ cart = EmptyCart
    /\ cache = <<>>
    /\ cartStore = EmptyCart
    /\ AppInit
    /\ PureIdle

\* every render recomputes the memoised sums from the cart it renders; the
\* effect of part_003 that follows a render saves the cart
Render ==
    /\ total' = goodsOf(variant, cart')
    /\ delivery' = deliveryOf(variant, total')
    /\ grandTotal' = sumWithDelivery(variant, total', delivery')
    /\ cartStore' = IF variant = "p003" THEN cart' ELSE cartStore

Mounted == catalogReq # "none"

\* the modal of part_003 covers the page until it is closed
ModalClosed == variant = "p003" => toast = "none"

\* App.tsx shows its tabs' content only when !loading && !error
ContentShown == variant = "App" => (~loading /\ error = "")

\* the product cards are rendered
CatalogShown ==
    /\ tab = "catalog"
    /\ ContentShown
    /\ variant = "p001" => ~loading

\* The effects that run when the component has mounted: the cart of part_003
\* is read back from localStorage; App.tsx renders a fresh cached catalog;
\* the catalog is requested.
MountEffect ==
    /\ catalogReq = "none"
    /\ catalogReq' = "pending"
    /\ \E age \in CacheAges :
         LET fresh == /\ variant = "App"
                      /\ cache # <<>>
                      /\ age < PRODUCTS_CACHE_TTL_MS
         IN /\ products' = IF fresh THEN cache[1] ELSE products
            /\ loading' = ~fresh
            /\ loadingHint' = IF fresh THEN "updating" ELSE ""
    /\ error' = ""
    /\ cart' = IF variant = "p003" THEN cartStore ELSE cart
    /\ Render
    /\ UNCHANGED <<tab, formVars, sending, toast, netVars, cache, fixedVars>>

\* the success path with the cart reset along with the list
CatalogLoaded_ResetsCart(list) ==
    /\ catalogReq = "pending"
    /\ catalogReq' = "done"
    /\ products' = list
    /\ loading' = FALSE
    /\ loadingHint' = ""
    /\ cache' = IF variant = "App" THEN <<list>> ELSE cache
    /\ cart' = EmptyCart
    /\ Render
    /\ UNCHANGED <<tab, error, formVars, sending, toast, netVars, fixedVars>>

\* the products request answers with a list
CatalogLoaded(list) ==
    /\ catalogReq = "pending"
    /\ catalogReq' = "done"
    /\ products' = list
    /\ loading' = FALSE
    /\ loadingHint' = ""
    /\ cache' = IF variant = "App" THEN <<list>> ELSE cache
    /\ UNCHANGED <<tab, error, cartVars, formVars, sending, toast, netVars, fixedVars>>

\* the products request fails: the body carries an error field, the timeout
\* aborts it (App.tsx only), or the network fails
CatalogFailed(kind) ==
    /\ catalogReq = "pending"
    /\ kind = "abort" => variant = "App"
    /\ catalogReq' = "done"
    /\ loading' = FALSE
    /\ loadingHint' = ""
    /\ error' = CASE variant = "App" -> (IF kind = "abort" THEN "timeout" ELSE "loadError")
                  [] variant = "p001" -> error
                  [] variant = "p003" -> (IF kind = "network" THEN "loadError" ELSE error)
    /\ products' = IF variant # "App" /\ kind = "errorField" THEN <<>> ELSE products
    /\ toast' = IF variant = "p001" /\ kind = "network" THEN "LoadError" ELSE toast
    /\ UNCHANGED <<tab, cartVars, formVars, sending, netVars, cache, fixedVars>>

\* the two buttons of the header
SetTab(t) ==
    /\ Mounted
    /\ ModalClosed
    /\ tab' = t
    /\ UNCHANGED <<loadVars, cartVars, formVars, sending, toast, netVars, fixedVars>>

\* a product card's buy button; part_003 also adds with the card's "+"
AddToCart(p) ==
    /\ Mounted
    /\ ModalClosed
    /\ CatalogShown
    /\ p \in Range(products)
    /\ IF variant = "p003" THEN qtyOf(cart, p.id) < MaxQty ELSE qtyOf(cart, p.id) = 0
    /\ cart' = IF variant = "p003" THEN addToCart_p003(cart, p) ELSE addToCart_App(cart, p)
    /\ toast' = IF variant = "App" THEN "info" ELSE toast
    /\ Render
    /\ UNCHANGED <<tab, loadVars, formVars, sending, netVars, fixedVars>>

\* part_003, cart tab: "+" adds a product rebuilt from the entry itself
CartPlus(id) ==
    /\ Mounted
    /\ variant = "p003"
    /\ ModalClosed
    /\ tab = "cart"
    /\ HasKey(cart, id)
    /\ qtyOf(cart, id) < MaxQty
    /\ cart' = addToCart_p003(cart, Product(Get(cart, id).id, Get(cart, id).price))
    /\ Render
    /\ UNCHANGED <<tab, loadVars, formVars, sending, toast, netVars, fixedVars>>

\* App.tsx and part_001: the quantity buttons call setQty with a quantity
\* computed from the rendered one
SetQtyClick(id, qty) ==
    /\ Mounted
    /\ variant \in {"App", "p001"}
    /\ ContentShown
    /\ qty <= MaxQty
    /\ \/ /\ CatalogShown
          /\ \E p \in Range(products) : p.id = id
          /\ qtyOf(cart, id) # 0
          /\ qty \in {qtyOf(cart, id) - 1, qtyOf(cart, id) + 1}
       \/ /\ variant = "App"
          /\ tab = "cart"
          /\ HasKey(cart, id)
          /\ qty \in {qtyOf(cart, id) - 1, qtyOf(cart, id) + 1, 0}
    /\ cart' = setQty_App(cart, id, qty)
    /\ Render
    /\ UNCHANGED <<tab, loadVars, formVars, sending, toast, netVars, fixedVars>>

\* part_003: "-" on a product card or on a cart row
DecClick(id) ==
    /\ Mounted
    /\ variant = "p003"
    /\ ModalClosed
    /\ HasKey(cart, id)
    /\ \/ tab = "catalog" /\ \E p \in Range(products) : p.id = id
       \/ tab = "cart"
    /\ cart' = decFromCart_p003(cart, id)
    /\ Render
    /\ UNCHANGED <<tab, loadVars, formVars, sending, toast, netVars, fixedVars>>

\* part_003: the remove button of a product card
RemoveClick(id) ==
    /\ Mounted
    /\ variant = "p003"
    /\ ModalClosed
    /\ tab = "catalog"
    /\ HasKey(cart, id)
    /\ \E p \in Range(products) : p.id = id
    /\ cart' = removeFromCart_p003(cart, id)
    /\ Render
    /\ UNCHANGED <<tab, loadVars, formVars, sending, toast, netVars, fixedVars>>

\* the checkout button of the cart tab: App.tsx and part_003 render it for a
\* cart that is not empty, part_001 always
GoCheckout ==
    /\ Mounted
    /\ ModalClosed
    /\ ContentShown
    /\ tab = "cart"
    /\ variant # "p001" => Len(Values(cart)) # 0
    /\ tab' = "checkout"
    /\ UNCHANGED <<loadVars, cartVars, formVars, sending, toast, netVars, fixedVars>>

FormShown == Mounted /\ ModalClosed /\ ContentShown /\ tab = "checkout"

SetCustomerName(v) ==
    /\ FormShown
    /\ customerName' = v
    /\ UNCHANGED <<tab, loadVars, cartVars, phone, address, comment, sending, toast,
                   netVars, fixedVars>>

SetPhone(v) ==
    /\ FormShown
    /\ phone' = v
    /\ UNCHANGED <<tab, loadVars, cartVars, customerName, address, comment, sending,
                   toast, netVars, fixedVars>>

SetAddress(v) ==
    /\ FormShown
    /\ address' = v
    /\ UNCHANGED <<tab, loadVars, cartVars, customerName, phone, comment, sending,
                   toast, netVars, fixedVars>>

SetComment(v) ==
    /\ FormShown
    /\ comment' = v
    /\ UNCHANGED <<tab, loadVars, cartVars, customerName, phone, address, sending,
                   toast, netVars, fixedVars>>

\* "back to the cart" of the checkout tab, disabled={sending} in App.tsx
BackToCart ==
    /\ FormShown
    /\ variant = "App" => ~sending
    /\ tab' = "cart"
    /\ UNCHANGED <<loadVars, cartVars, formVars, sending, toast, netVars, fixedVars>>

\* the submit button can be pressed: disabled={sending} in App.tsx and
\* part_001, never disabled in part_003
SubmitEnabled ==
    /\ FormShown
    /\ variant \in {"App", "p001"} => ~sending

validationOf(v) ==
    CASE v = "App"  -> validateCheckout_App(customerName, phone, address, Values(cart))
      [] v = "p001" -> validate_p001(customerName, phone, address, Values(cart))
      [] v = "p003" -> validate_p003(customerName, phone, address, envToken)

payloadOf(v) ==
    CASE v = "App"  -> payload_App(customerName, phone, address, comment, cart,
                                   total, delivery, grandTotal)
      [] v = "p001" -> payload_p001(customerName, phone, address, comment, cart,
                                    total, delivery, grandTotal)
      [] v = "p003" -> payload_p003(customerName, phone, address, comment, cart,
                                    grandTotal)

\* submitOrder with setSending(true) moved above the validation
SubmitOrder_FlagBeforeValidation ==
    /\ SubmitEnabled
    /\ inFlight < MaxInFlight
    /\ IF validationOf(variant) # "ok"
       THEN /\ toast' = validationOf(variant)
            /\ UNCHANGED netVars
       ELSE /\ inFlight' = inFlight + 1
            /\ sent' = <<payloadOf(variant)>>
            /\ UNCHANGED toast
    /\ sending' = IF variant = "p003" THEN sending ELSE TRUE
    /\ UNCHANGED <<tab, loadVars, cartVars, formVars, fixedVars>>

\* submitOrder up to its await: validation, then the payload and the request
SubmitOrder ==
    /\ SubmitEnabled
    /\ inFlight < MaxInFlight
    /\ IF validationOf(variant) # "ok"
       THEN /\ toast' = validationOf(variant)
            /\ UNCHANGED <<netVars, sending>>
       ELSE /\ inFlight' = inFlight + 1
            /\ sent' = <<payloadOf(variant)>>
            /\ sending' = IF variant = "p003" THEN sending ELSE TRUE
            /\ UNCHANGED toast
    /\ UNCHANGED <<tab, loadVars, cartVars, formVars, fixedVars>>

\* submitOrder after its await: a request awaited ends with outcome o
OrderResponse(o) ==
    /\ inFlight > 0
    /\ inFlight' = inFlight - 1
    /\ sent' = IF inFlight' = 0 THEN <<>> ELSE sent
    /\ IF succeededOf(variant, o)
       THEN /\ toast' = "success"
            /\ cart' = EmptyCart
            /\ comment' = <<>>
            /\ address' = IF variant = "p003" THEN address ELSE <<>>
            /\ customerName' = IF variant = "p003" THEN customerName ELSE <<>>
            /\ phone' = IF variant = "p003" THEN phone ELSE <<>>
            /\ tab' = "catalog"
       ELSE /\ toast' = "SubmitError"
            /\ UNCHANGED <<cart, formVars, tab>>
    /\ sending' = IF variant = "p003" THEN sending ELSE FALSE
    /\ Render
    /\ UNCHANGED <<loadVars, fixedVars>>

\* the toast of App.tsx closes (its button, or after 2.5 s); the modal of
\* part_003 is closed
CloseToast ==
    /\ variant \in {"App", "p003"}
    /\ toast # "none"
    /\ toast' = "none"
    /\ UNCHANGED <<tab, loadVars, cartVars, formVars, sending, netVars, fixedVars>>

\* the mini-app is closed and opened again: the component is constructed
\* anew, localStorage stays, the requests of the old page are not awaited
Reload ==
    /\ Mounted
    /\ tab' = "catalog"
    /\ loading' = TRUE
    /\ error' = ""
    /\ products' = <<>>
    /\ customerName' = <<>>
    /\ phone' = <<>>
    /\ address' = <<>>
    /\ comment' = <<>>
    /\ sending' = FALSE
    /\ toast' = "none"
    /\ inFlight' = 0
    /\ sent' = <<>>
    /\ loadingHint' = ""
    /\ catalogReq' = "none"
    /\ cart' = EmptyCart
    /\ total' = 0
    /\ delivery' = 0
    /\ grandTotal' = 0
    /\ UNCHANGED <<cache, cartStore, fixedVars>>

Next ==
    \/ MountEffect
    \/ \E list \in Catalogs : CatalogLoaded(list)
    \/ \E kind \in {"errorField", "abort", "network"} : CatalogFailed(kind)
    \/ \E t \in {"catalog", "cart"} : SetTab(t)
    \/ \E p \in AllProducts : AddToCart(p)
    \/ \E id \in Ids : CartPlus(id)
    \/ \E id \in Ids, qty \in 0..MaxQty : SetQtyClick(id, qty)
    \/ \E id \in Ids : DecClick(id)
    \/ \E id \in Ids : RemoveClick(id)
    \/ GoCheckout
    \/ \E v \in NameInputs : SetCustomerName(v)
    \/ \E v \in PhoneInputs : SetPhone(v)
    \/ \E v \in AddressInputs : SetAddress(v)
    \/ \E v \in CommentInputs : SetComment(v)
    \/ BackToCart
    \/ SubmitOrder
    \/ \E o \in Outcomes : OrderResponse(o)
    \/ CloseToast
    \/ Reload

Spec == Init /\ [][Next]_vars

----------------------------------------------------------------------------
(* FormSpec: the checks that open a submission and the payload built after  *)
(* them, applied to a form and a cart in any state.                         *)

\* part_002: the sums of the list cart
subtotal_p002(c) == SumSeq([i \in 1..Len(c) |-> c[i].price * c[i].qty])

delivery_p002(sub) == IF sub > 0 /\ sub < 2000 THEN 200 ELSE 0

grandTotal_p002(sub, d) == sub + d

\* part_002, submitOrder: the cart is tested before the fields
checks_p002(c, nm, ph, addr) ==
    IF Len(c) = 0 THEN "CartEmpty"
    ELSE IF Len(trim(nm)) < 2 THEN "NameTooShort"
    ELSE IF Len(trim(ph)) < 6 THEN "PhoneTooShort"
    ELSE IF Len(trim(addr)) < 5 THEN "AddressTooShort"
    ELSE "ok"

\* part_002 sends the fields as typed
payload_p002(nm, ph, addr, cm, c, sub, d, g) ==
    [clientName |-> nm, clientPhone |-> ph, address |-> addr, comment |-> cm,
     items |-> [i \in 1..Len(c) |-> [id |-> c[i].id, qty |-> c[i].qty, price |-> c[i].price]],
     subtotal |-> sub, delivery |-> d, total |-> g]

FormVariants == {"App", "p001", "p002"}

\* what can stand in the fields: too short, long enough only with the white
\* space around it, long enough
FormNames ==
    {<<>>, <<"A">>, <<" ", "A">>, <<"A", "l">>, <<" ", "A", "l", " ">>}
FormPhones ==
    {<<>>, <<"1", "2", "3", "4", "5", " ">>, <<"1", "2", "3", "4", "5", "6">>}
FormAddresses ==
    {<<>>, <<" ", "L", "e", "n", "a">>, <<" ", "L", "e", "n", "i", "n">>}

\* the carts a form is submitted with: none, or one unit of P1
FormCarts(v) ==
    IF v = "p002"
    THEN {<<>>, addToCart_p002(<<>>, CatalogA[1])}
    ELSE {EmptyCart, addToCart_App(EmptyCart, CatalogA[1])}

FormInit ==
    /\ variant \in FormVariants
    /\ cart \in FormCarts(variant)
    /\ customerName \in FormNames
    /\ phone \in FormPhones
    /\ address \in FormAddresses
    /\ comment \in CommentInputs
    /\ total = (IF variant = "p002" THEN subtotal_p002(cart) ELSE total_App(cart))
    /\ delivery = (CASE variant = "App" -> delivery_App(total)
                     [] variant = "p001" -> delivery_p001(total)
                     [] variant = "p002" -> delivery_p002(total))
    /\ grandTotal = (IF variant = "p002" THEN grandTotal_p002(total, delivery)
                     ELSE grandTotal_App(total, delivery))
    /\ tab = "checkout"
    /\ loading = FALSE
    /\ error = ""
    /\ products = CatalogA
    /\ sending = FALSE
    /\ toast = "none"
    /\ inFlight = 0
    /\ sent = <<>>
    /\ loadingHint = ""
    /\ catalogReq = "done"
    /\ cache = <<>>
    /\ cartStore = EmptyCart
    /\ envToken = TRUE
    /\ now = 1
    /\ PureIdle

\* the verdict of the checks of the variant on the form and the cart
checksOf(v) ==
    CASE v = "App"  -> validateCheckout_App(customerName, phone, address, Values(cart))
      [] v = "p001" -> validate_p001(customerName, phone, address, Values(cart))
      [] v = "p002" -> checks_p002(cart, customerName, phone, address)

\* the body of the order request of the variant
bodyOf(v) ==
    CASE v = "App"  -> payload_App(customerName, phone, address, comment, cart,
                                   total, delivery, grandTotal)
      [] v = "p001" -> payload_p001(customerName, phone, address, comment, cart,
                                    total, delivery, grandTotal)
      [] v = "p002" -> payload_p002(customerName, phone, address, comment, cart,
                                    total, delivery, grandTotal)

ApplyChecks ==
    /\ fn = "none"
    /\ fn' = "validate"
    /\ res' = checksOf(variant)
    /\ UNCHANGED <<variant, cart, appVars, arg>>

\* the payload is built once the checks have passed
ApplyPayload ==
    /\ fn = "none"
    /\ checksOf(variant) = "ok"
    /\ fn' = "payload"
    /\ res' = bodyOf(variant)
    /\ UNCHANGED <<variant, cart, appVars, arg>>

FormNext == ApplyChecks \/ ApplyPayload

FormSpec == FormInit /\ [][FormNext]_vars

----------------------------------------------------------------------------
(* FairSpec: what the runtime guarantees to happen.  The mount effects run; *)
(* the toast of App.tsx closes by its timer; the catalog request of App.tsx *)
(* ends, by an answer or by the abort of fetchWithTimeout.  Nothing bounds   *)
(* the order request, which is sent with fetch alone.                       *)

CatalogEnds ==
    /\ variant = "App"
    /\ \/ \E list \in Catalogs : CatalogLoaded(list)
       \/ \E kind \in {"errorField", "abort", "network"} : CatalogFailed(kind)

ToastTimer == variant = "App" /\ CloseToast

Fairness ==
    /\ WF_vars(MountEffect)
    /\ WF_vars(ToastTimer)
    /\ WF_vars(CatalogEnds)

FairSpec == Init /\ [][Next]_vars /\ Fairness

----------------------------------------------------------------------------
(* LoadSpec: the catalog load of App.tsx and part_004, with the time stamp  *)
(* of the cached snapshot and the two awaits of the request: fetch, with    *)
(* the timer of fetchWithTimeout armed, then res.json(), after the timer    *)
(* was cleared.  fn and arg keep the last step and what it was given.       *)

LoadVariants == {"App", "p004"}

\* the values of Date.now() the load can tell apart
Instants ==
    {1, 2, PRODUCTS_CACHE_TTL_MS, PRODUCTS_CACHE_TTL_MS + 1,
     PRODUCTS_CACHE_TTL_MS + 2}

\* null without an item, and without a ts that counts as true
loadProductsCache(raw) ==
    IF raw = <<>> THEN <<>>
    ELSE IF raw[1].ts = 0 THEN <<>>
    ELSE <<[ts |-> raw[1].ts, products |-> raw[1].products]>>

\* setItem with the snapshot kept when there is one already
saveProductsCache_KeepsPrior(stored, list, t) ==
    IF stored # <<>> THEN stored ELSE <<[ts |-> t, products |-> list]>>

\* localStorage.setItem(KEY, JSON.stringify({ ts: Date.now(), products }))
saveProductsCache(stored, list, t) == <<[ts |-> t, products |-> list]>>

\* the freshness test with the TTL itself counted as fresh
hasFreshCache_TtlIncluded(cached, t) ==
    cached # <<>> /\ t - cached[1].ts <= PRODUCTS_CACHE_TTL_MS

\* cached && Date.now() - cached.ts < PRODUCTS_CACHE_TTL_MS
hasFreshCache(cached, t) ==
    cached # <<>> /\ t - cached[1].ts < PRODUCTS_CACHE_TTL_MS

\* what a failed load can be: the timer aborted the fetch, the network
\* failed, the body is no JSON, the body carries an error field
FetchFailures == {"abort", "network"}
BodyFailures == {"network", "noJson", "errorField"}

loadFrame == <<variant, tab, cart, customerName, phone, address, comment,
               sending, toast, total, delivery, grandTotal, inFlight, sent,
               cartStore, envToken, res>>

LoadInit ==
    /\ variant \in LoadVariants
    /\ cart = EmptyCart
    /\ envToken = TRUE
    /\ cache = <<>>
    /\ cartStore = EmptyCart
    /\ AppInit
    /\ PureIdle

\* time passes
Tick ==
    /\ \E t \in Instants : t > now /\ now' = t
    /\ fn' = "tick"
    /\ arg' = 0
    /\ UNCHANGED <<loadFrame, loadVars>>

\* the load effect up to its first await: a fresh snapshot is rendered,
\* then the request is sent
LoadMount ==
    /\ catalogReq = "none"
    /\ LET cached == loadProductsCache(cache)
           fresh == hasFreshCache(cached, now)
       IN /\ products' = IF fresh THEN cached[1].products ELSE products
          /\ loading' = ~fresh
          /\ loadingHint' = IF fresh THEN "updating" ELSE ""
    /\ error' = ""
    /\ catalogReq' = "fetching"
    /\ fn' = "mount"
    /\ arg' = 0
    /\ UNCHANGED <<loadFrame, cache, now>>

\* fetch resolves with the response headers; the finally of fetchWithTimeout
\* clears the timer; the effect awaits res.json()
HeadersArrive ==
    /\ catalogReq = "fetching"
    /\ catalogReq' = "reading"
    /\ fn' = "headers"
    /\ arg' = 0
    /\ UNCHANGED <<loadFrame, loading, error, products, loadingHint, cache, now>>

\* the catch of the effect.  A fresh snapshot was rendered exactly when the
\* hint says so: part_004 keeps hasFreshCache for its catch.
LoadCatch(kind) ==
    /\ catalogReq' = "done"
    /\ loading' = FALSE
    /\ IF variant = "p004" /\ kind = "abort" /\ loadingHint = "updating"
       THEN error' = "" /\ loadingHint' = "slow"
       ELSE /\ error' = (IF kind = "abort" THEN "timeout" ELSE "loadError")
            /\ loadingHint' = ""
    /\ fn' = "failed"
    /\ arg' = kind
    /\ UNCHANGED <<loadFrame, products, cache, now>>

\* fetch rejects: the timer aborted the request, or the network failed
FetchFailed(kind) ==
    /\ catalogReq = "fetching"
    /\ kind \in FetchFailures
    /\ LoadCatch(kind)

\* res.json() rejects, or the body carries an error field
BodyFailed(kind) ==
    /\ catalogReq = "reading"
    /\ kind \in BodyFailures
    /\ LoadCatch(kind)

\* the body is read and carries a list: it is rendered and saved
BodyRead(list) ==
    /\ catalogReq = "reading"
    /\ catalogReq' = "done"
    /\ products' = list
    /\ cache' = saveProductsCache(cache, list, now)
    /\ loading' = FALSE
    /\ loadingHint' = ""
    /\ fn' = "loaded"
    /\ arg' = cache
    /\ UNCHANGED <<loadFrame, error, now>>

\* the mini-app is closed and opened again
LoadReload ==
    /\ catalogReq # "none"
    /\ catalogReq' = "none"
    /\ loading' = TRUE
    /\ error' = ""
    /\ products' = <<>>
    /\ loadingHint' = ""
    /\ fn' = "reload"
    /\ arg' = 0
    /\ UNCHANGED <<loadFrame, cache, now>>

LoadNext ==
    \/ Tick
    \/ LoadMount
    \/ HeadersArrive
    \/ \E kind \in FetchFailures : FetchFailed(kind)
    \/ \E kind \in BodyFailures : BodyFailed(kind)
    \/ \E list \in Catalogs : BodyRead(list)
    \/ LoadReload

LoadSpec == LoadInit /\ [][LoadNext]_vars

\* The effect runs after the mount.  The timer of fetchWithTimeout bounds
\* the fetch: it resolves or rejects.  Nothing bounds res.json().
FetchEnds ==
    \/ HeadersArrive
    \/ \E kind \in FetchFailures : FetchFailed(kind)

LoadFairSpec ==
    LoadInit /\ [][LoadNext]_vars /\ WF_vars(LoadMount) /\ WF_vars(FetchEnds)

----------------------------------------------------------------------------
(* ProxySpec: the order proxy src/api/order.js.  arg is a request with the  *)
(* environment it meets and the answer the upstream service would give;     *)
(* res is what the handler answered and what it sent upstream.              *)

\* JSON values: an object is a function from its field names, an array a
\* sequence
NoFields == [k \in {} |-> ""]
JObject(f) == [kind |-> "object", fields |-> f, items |-> <<>>]
JArray(s) == [kind |-> "array", fields |-> NoFields, items |-> s]
JNull == [kind |-> "null", fields |-> NoFields, items |-> <<>>]

ProxyMethods == {"POST", "OPTIONS", "GET"}

\* process.env: "" stands for a variable that is not set
ProxyEnvs == [GS_API_URL : {"", "url"}, GS_API_TOKEN : {"", "secret"}]

\* the objects a client sends: an order with or without a token of its own
ClientObjects ==
    {NoFields, [name |-> "Al"], [name |-> "Al", token |-> "guess"],
     [name |-> "Al", token |-> "secret"], [token |-> "guess"]}

\* req.body: absent, parsed by the platform, or the text of the body (empty,
\* well formed or not)
ProxyBodies ==
    {[given |-> "none", ok |-> TRUE, val |-> JNull],
     [given |-> "emptyText", ok |-> TRUE, val |-> JNull],
     [given |-> "text", ok |-> FALSE, val |-> JNull],
     [given |-> "text", ok |-> TRUE, val |-> JNull],
     [given |-> "parsed", ok |-> TRUE, val |-> JArray(<<"Al">>)]}
    \cup {[given |-> g, ok |-> TRUE, val |-> JObject(f)] :
             g \in {"parsed", "text"}, f \in ClientObjects}

\* the upstream call rejects, or answers with a status and a text
UpstreamOutcomes ==
    {[threw |-> TRUE, status |-> 0, text |-> ""]} \cup
    {[threw |-> FALSE, status |-> st, text |-> t] :
        st \in {200, 500}, t \in {"{\"ok\":true}", "{\"error\":\"bad token\"}"}}

\* typeof req.body === "string" ? JSON.parse(req.body || "{}") : (req.body || {})
parseBody(b) ==
    CASE b.given = "none"      -> [threw |-> FALSE, val |-> JObject(NoFields)]
      [] b.given = "emptyText" -> [threw |-> FALSE, val |-> JObject(NoFields)]
      [] b.given = "text"      -> [threw |-> ~b.ok, val |-> b.val]
      [] b.given = "parsed"    -> [threw |-> FALSE, val |-> b.val]

\* the assignment that leaves a token the client sent in place
setToken_KeepsClientToken(v, tok) ==
    CASE v.kind = "object" ->
            [threw |-> FALSE,
             val |-> JObject([k \in DOMAIN v.fields \cup {"token"} |->
                                IF k \in DOMAIN v.fields THEN v.fields[k] ELSE tok])]
      [] v.kind = "array"  -> [threw |-> FALSE, val |-> v]
      [] v.kind = "null"   -> [threw |-> TRUE, val |-> v]

\* body.token = GS_API_TOKEN, as JSON.stringify(body) shows it: a property
\* set on an array is not serialised, and null has no properties
setToken(v, tok) ==
    CASE v.kind = "object" ->
            [threw |-> FALSE,
             val |-> JObject([k \in DOMAIN v.fields \cup {"token"} |->
                                IF k = "token" THEN tok ELSE v.fields[k]])]
      [] v.kind = "array"  -> [threw |-> FALSE, val |-> v]
      [] v.kind = "null"   -> [threw |-> TRUE, val |-> v]

\* the body of the upstream request of a POST, <<>> when none is sent
forwarded(req, env) ==
    IF parseBody(req.body).threw THEN <<>>
    ELSE IF setToken(parseBody(req.body).val, env.GS_API_TOKEN).threw THEN <<>>
    ELSE <<setToken(parseBody(req.body).val, env.GS_API_TOKEN).val>>

Answer(st, txt, up) == [status |-> st, body |-> txt, upstream |-> up]

\* the handler with the method of the request not looked at
handler_AnyMethod(req, env, up) ==
    IF env.GS_API_URL = "" THEN Answer(500, "Missing GS_API_URL env var", <<>>)
    ELSE IF env.GS_API_TOKEN = "" THEN Answer(500, "Missing GS_API_TOKEN env var", <<>>)
    ELSE IF forwarded(req, env) = <<>> THEN Answer(500, "exception", <<>>)
    ELSE IF up.threw THEN Answer(500, "exception", forwarded(req, env))
    ELSE Answer(up.status, up.text, forwarded(req, env))

handler(req, env, up) ==
    IF env.GS_API_URL = "" THEN Answer(500, "Missing GS_API_URL env var", <<>>)
    ELSE IF env.GS_API_TOKEN = "" THEN Answer(500, "Missing GS_API_TOKEN env var", <<>>)
    ELSE IF req.method = "OPTIONS" THEN Answer(200, "ok", <<>>)
    ELSE IF req.method # "POST" THEN Answer(405, "Method not allowed", <<>>)
    ELSE IF forwarded(req, env) = <<>> THEN Answer(500, "exception", <<>>)
    ELSE IF up.threw THEN Answer(500, "exception", forwarded(req, env))
    ELSE Answer(up.status, up.text, forwarded(req, env))

ProxyInit ==
    /\ variant = "App"
    /\ cart = EmptyCart
    /\ envToken = TRUE
    /\ cache = <<>>
    /\ cartStore = EmptyCart
    /\ AppInit
    /\ fn = "none"
    /\ arg \in [req : [method : ProxyMethods, body : ProxyBodies],
                env : ProxyEnvs, up : UpstreamOutcomes]
    /\ res = "none"

Handle ==
    /\ fn = "none"
    /\ fn' = "handler"
    /\ res' = handler(arg.req, arg.env, arg.up)
    /\ UNCHANGED <<variant, cart, appVars, arg>>

ProxyNext == Handle

ProxySpec == ProxyInit /\ [][ProxyNext]_vars

----------------------------------------------------------------------------
(* Definitions used to state the properties *)

\* sum of price x quantity over the entries of a cart
SumOfEntries(v, c) ==
    SumSeq([i \in 1..Len(Entries(v, c)) |->
               EntryPrice(v, Entries(v, c)[i]) * Entries(v, c)[i].qty])

\* the fee rule of the specification
FeeFor(s) == IF 0 < s /\ s < 2000 THEN 200 ELSE 0

\* sum of price x quantity over the items of a payload
SumOfItems(v, items) ==
    SumSeq([i \in 1..Len(items) |->
               (IF v = "p001" THEN items[i].product.price ELSE items[i].price)
                   * items[i].qty])

\* the grand total a payload states
StatedGrandTotal(v, pl) == IF v = "p003" THEN pl.total ELSE pl.grandTotal

\* name, phone and address pass the length checks
FieldsPass ==
    /\ Len(trim(customerName)) >= 2
    /\ Len(trim(phone)) >= 6
    /\ Len(trim(address)) >= 5

\* the entries a cart holds for a product id
EntriesFor(v, c, id) ==
    IF v \in KeyedVariants
    THEN (IF id \in DOMAIN c THEN {c[id]} ELSE {})
    ELSE {c[i] : i \in {j \in 1..Len(c) : c[j].id = id}}

\* the quantity a cart holds of a product id, 0 without an entry
QtyIn(v, c, id) ==
    IF EntriesFor(v, c, id) = {} THEN 0
    ELSE (CHOOSE e \in EntriesFor(v, c, id) : TRUE).qty

\* the entries of all ids but one are the same in two carts
OthersSame(v, c, d, id) ==
    \A o \in Ids \ {id} : EntriesFor(v, c, o) = EntriesFor(v, d, o)

\* the server accepted the order: a success status and no error field
Accepted(o) == ~o.rejected /\ o.ok /\ o.body # "error"

----------------------------------------------------------------------------
(* C1: starting from the empty cart, after any sequence of add,             *)
(* setQuantity (any integer), increment, decrement, remove and clear, every *)
(* entry stored in the cart has quantity >= 1.                              *)
C1_QuantityAtLeastOne ==
    \A i \in 1..Len(Entries(variant, cart)) : Entries(variant, cart)[i].qty >= 1

\* setQty has created an entry for an absent key and has set a quantity of 2
C1_Witness ==
    /\ variant = "App"
    /\ \E k \in DOMAIN cart :
          /\ "product" \notin DOMAIN cart[k]
          /\ cart[k].qty = 2
    /\ DOMAIN cart = Ids

(* C2: at any time at most one order request is in flight: a further submit *)
(* trigger while a request awaits its response starts no second request.    *)
C2_AtMostOneInFlight == inFlight <= 1

(* C3: when submitOrder is triggered and checkout validation fails, no      *)
(* request is sent, and the cart, the form fields and the in-flight flag    *)
(* are left unchanged; only the error message is shown.                     *)
C3_FailedValidationChangesNothing ==
    [][(\/ SubmitOrder /\ validationOf(variant) # "ok"
        \/ toast' \in ValidationErrors /\ toast' # toast)
       => /\ toast' \in ValidationErrors
          /\ UNCHANGED <<inFlight, sent, cart, formVars, sending>>]_vars

\* a submit has failed on the phone number, with goods in the cart
C3_Witness ==
    /\ toast = "PhoneTooShort"
    /\ tab = "checkout"
    /\ DOMAIN cart # {}
    /\ Len(trim(customerName)) >= 2
    /\ inFlight = 0
    /\ ~sending

C5_OnlyAcceptedSucceeds ==
    [][\A o \in Outcomes :
          OrderResponse(o)
             => /\ toast' = "success" <=> Accepted(o)
                /\ ~Accepted(o) => (toast' = "SubmitError" /\ cart' = cart)]_vars

(* C6: after a submission fails (timeout, network failure or server         *)
(* rejection) no further request is sent until the user submits again, the  *)
(* in-flight flag is false, and the cart and the form fields are as they    *)
(* were before the failure.                                                 *)
C6_FailureLeavesRetryable ==
    [][\A o \in Outcomes :
          (OrderResponse(o) /\ ~Accepted(o))
             => /\ inFlight' = inFlight - 1
                /\ ~sending'
                /\ cart' = cart
                /\ formVars' = formVars]_vars

(* C7: the order request is bounded by a timeout: every submission that     *)
(* passed validation eventually ends and the in-flight flag returns to      *)
(* false, whether or not the server answers.                                *)
C7_SubmissionEnds == (inFlight > 0) ~> (inFlight = 0 /\ ~sending)

(* C8: for every subtotal s >= 0 the delivery fee is 200 when 0 < s < 2000  *)
(* and 0 when s = 0 or s >= 2000.                                           *)
C8_DeliveryFeeRule ==
    fn = "delivery" => res = (IF 0 < arg /\ arg < 2000 THEN 200 ELSE 0)

\* the rule has been applied just below the threshold
C8_Witness == fn = "delivery" /\ arg = 1999 /\ res = 200

(* C9: in every reachable state the subtotal equals the sum of price x      *)
(* quantity over the cart entries; adding p increases it by exactly         *)
(* p.price, also when an entry for p.id exists and the catalog was          *)
(* refreshed or the cart restored in between; removing an entry decreases   *)
(* it by that entry's price x quantity.                                     *)
C9_SubtotalLaws ==
    [][/\ total' = SumOfEntries(variant, cart')
       /\ \A p \in AllProducts :
             AddToCart(p)
                => SumOfEntries(variant, cart') = SumOfEntries(variant, cart) + p.price
       /\ \A id \in Ids :
             (RemoveClick(id) \/ SetQtyClick(id, 0))
                => SumOfEntries(variant, cart')
                     = SumOfEntries(variant, cart)
                         - EntryPrice(variant, cart[id]) * cart[id].qty]_vars

(* C10: in every reachable state, and in every order payload sent, the      *)
(* grand total equals the subtotal plus the delivery fee computed from the  *)
(* cart contents of that same state.                                        *)
C10_GrandTotalIsSubtotalPlusFee ==
    /\ grandTotal = SumOfEntries(variant, cart) + FeeFor(SumOfEntries(variant, cart))
    /\ sent # <<>>
          => StatedGrandTotal(variant, sent[1])
               = SumOfItems(variant, sent[1].items)
                   + FeeFor(SumOfItems(variant, sent[1].items))

\* two units were ordered with free delivery, and one was taken out of the
\* cart while the request is awaited
C10_Witness ==
    /\ variant = "App"
    /\ sent # <<>>
    /\ sent[1].grandTotal = 2000
    /\ grandTotal = 1200


(* C11: checkout validation checks name, then phone, then address, then    *)
(* the cart, and reports the first failing rule: a trimmed name shorter     *)
(* than 2 is reported as NameTooShort whatever the phone, the address and   *)
(* the cart are (an empty cart included); a short phone wins over the       *)
(* address and the cart, a short address over the cart.                     *)
C11_FirstFailingRuleWins ==
    fn = "validate" =>
       /\ Len(trim(customerName)) < 2 => res = "NameTooShort"
       /\ (Len(trim(customerName)) >= 2 /\ Len(trim(phone)) < 6)
             => res = "PhoneTooShort"
       /\ (Len(trim(customerName)) >= 2 /\ Len(trim(phone)) >= 6
              /\ Len(trim(address)) < 5)
             => res = "AddressTooShort"

(* C12: checkout validation passes if and only if the trimmed name has      *)
(* length >= 2, the trimmed phone >= 6, the trimmed address >= 5 and the    *)
(* cart is not empty; a field that reaches its minimum length only through  *)
(* white space at its ends is rejected.                                     *)
C12_PassesIffTrimmedFieldsAndCart ==
    fn = "validate" =>
       (res = "ok" <=> (FieldsPass /\ Len(Entries(variant, cart)) > 0))


(* C13: add(product): without an entry for product.id the cart has one      *)
(* with quantity 1 afterwards; otherwise the quantity of that entry is      *)
(* exactly one higher; the entries of all other ids are unchanged.          *)
C13_AddIncrementsOneEntry ==
    [][fn' = "add"
         => /\ Cardinality(EntriesFor(variant, cart', arg')) = 1
            /\ QtyIn(variant, cart', arg') = QtyIn(variant, cart, arg') + 1
            /\ OthersSame(variant, cart, cart', arg')]_vars

\* P1 has been added to a cart that held one unit of it and an entry of P2
C13_Witness ==
    /\ fn = "add"
    /\ arg = "P1"
    /\ variant = "p000"
    /\ QtyIn(variant, cart, "P1") = 2
    /\ QtyIn(variant, cart, "P2") = 1

(* C14: setQuantity(id, qty): for qty <= 0 the cart has no entry for id     *)
(* afterwards, and is unchanged when it had none; for qty > 0 it has an     *)
(* entry for id with quantity exactly qty, created if absent; the entries   *)
(* of all other ids are unchanged.                                          *)
C14_SetQuantitySetsOrRemoves ==
    [][fn' = "setQty"
         => /\ res' <= 0 =>
                  /\ EntriesFor(variant, cart', arg') = {}
                  /\ EntriesFor(variant, cart, arg') = {} => cart' = cart
            /\ res' > 0 =>
                  /\ Cardinality(EntriesFor(variant, cart', arg')) = 1
                  /\ QtyIn(variant, cart', arg') = res'
            /\ OthersSame(variant, cart, cart', arg')]_vars

\* changeQty of part_005 has set 2 for an id that had no entry, next to an
\* entry of the other id
C14_Witness ==
    /\ fn = "setQty"
    /\ res = 2
    /\ variant = "p005"
    /\ DOMAIN cart = Ids
    /\ "product" \notin DOMAIN cart[arg]
    /\ cart[arg].qty = 2

(* C15: decrementing an id without an entry leaves the whole cart           *)
(* unchanged; decrementing an entry of quantity 1 removes it; decrementing  *)
(* an entry of quantity q > 1 leaves it with q - 1.                         *)
C15_DecrementLaws ==
    [][(fn' = "dec" \/ (fn' = "changeQty" /\ res' = -1))
         => /\ QtyIn(variant, cart, arg') = 0 => cart' = cart
            /\ QtyIn(variant, cart, arg') = 1 => EntriesFor(variant, cart', arg') = {}
            /\ QtyIn(variant, cart, arg') > 1 =>
                  /\ Cardinality(EntriesFor(variant, cart', arg')) = 1
                  /\ QtyIn(variant, cart', arg') = QtyIn(variant, cart, arg') - 1]_vars

\* decFromCart has been called for an id without an entry, the cart holding
\* two units of the other id
C15_Witness ==
    /\ fn = "dec"
    /\ variant = "p003"
    /\ EntriesFor(variant, cart, arg) = {}
    /\ \E o \in Ids : QtyIn(variant, cart, o) = 2

(* C16: after any sequence of cart operations the cart holds at most one    *)
(* entry per product id; in the list carts repeated addToCart, changeQty    *)
(* and removeItem never leave two entries with the same id.                 *)
C16_OneEntryPerId ==
    IF variant \in KeyedVariants
    THEN \A k \in DOMAIN cart :
            /\ "id" \in DOMAIN cart[k] => cart[k].id = k
            /\ "product" \in DOMAIN cart[k] => cart[k].product.id = k
    ELSE \A i, j \in 1..Len(cart) : cart[i].id = cart[j].id => i = j

\* the list cart of part_002 after a second addToCart of its first product
C16_Witness ==
    /\ variant = "p002"
    /\ fn = "add"
    /\ Len(cart) = 2
    /\ cart[1].id = arg
    /\ cart[1].qty = 2

(* C17: when a submission ends in success, the cart is empty and the        *)
(* address and comment fields are empty in the resulting state; the cart is *)
(* never emptied by a submission that did not succeed.                      *)
C17_SuccessClearsCartAndFields ==
    [][(\E o \in Outcomes : OrderResponse(o))
         => /\ toast' = "success" =>
                  /\ Len(Entries(variant, cart')) = 0
                  /\ address' = <<>>
                  /\ comment' = <<>>
            /\ toast' # "success" => cart' = cart]_vars

(* C18: every order payload sent has exactly one line item per cart entry   *)
(* at the moment of submission, each with sum = price x qty, and carries    *)
(* total = the sum of the line sums, delivery = the fee for that subtotal   *)
(* and grandTotal = total + delivery.                                       *)
C18_PayloadItemsAndSums ==
    [][sent' # <<>> =>
         LET pl == sent'[1]
         IN /\ {"items", "total", "delivery", "grandTotal"} \subseteq DOMAIN pl
            /\ \A i \in 1..Len(pl.items) :
                  /\ {"id", "price", "qty", "sum"} \subseteq DOMAIN pl.items[i]
                  /\ pl.items[i].sum = pl.items[i].price * pl.items[i].qty
            /\ pl.total = SumSeq([i \in 1..Len(pl.items) |-> pl.items[i].sum])
            /\ pl.delivery = FeeFor(pl.total)
            /\ pl.grandTotal = pl.total + pl.delivery
            /\ inFlight' > inFlight =>
                  /\ Len(pl.items) = Len(Entries(variant, cart))
                  /\ \A i \in 1..Len(pl.items) :
                        /\ pl.items[i].id = EntryId(variant, Entries(variant, cart)[i])
                        /\ pl.items[i].price = EntryPrice(variant, Entries(variant, cart)[i])
                        /\ pl.items[i].qty = Entries(variant, cart)[i].qty]_vars

(* C19: the name, phone, address and comment carried by every order payload *)
(* are the form values with leading and trailing white space removed, the   *)
(* values that validation judged.                                           *)
C19_PayloadFieldsTrimmed ==
    fn = "payload" =>
       /\ (IF variant = "p002" THEN res.clientName ELSE res.name) = trim(customerName)
       /\ (IF variant = "p002" THEN res.clientPhone ELSE res.phone) = trim(phone)
       /\ res.address = trim(address)
       /\ res.comment = trim(comment)

(* C20: in every reachable state the count on the cart badge equals the     *)
(* sum of the quantities of all cart entries, not the number of entries;    *)
(* it is 0 exactly when the cart is empty.                                  *)
C20_BadgeIsSumOfQuantities ==
    /\ badgeOf(variant, cart)
         = SumSeq([i \in 1..Len(Entries(variant, cart)) |-> Entries(variant, cart)[i].qty])
    /\ badgeOf(variant, cart) = 0 <=> Len(Entries(variant, cart)) = 0

(* C21: when the catalog request fails (timeout, network failure, or an     *)
(* answer with an error field) after a fresh cached catalog was rendered,   *)
(* no error is surfaced and the rendered list stays the cached list, so     *)
(* the views stay usable.                                                   *)
C21_FailureAfterFreshCacheIsSilent ==
    [][(fn' = "failed" /\ loadingHint = "updating")
          => /\ error' = ""
             /\ ~loading'
             /\ cache # <<>>
             /\ products' = cache[1].products]_vars

(* C22: a cached snapshot is rendered ahead of the answer of the network    *)
(* only when now - ts < TTL (10 minutes); a snapshot whose age is the TTL   *)
(* or more is never rendered: the load goes on as without a cache.          *)
C22_OnlyFreshSnapshotRendered ==
    [][fn' = "mount"
          => IF cache # <<>> /\ now - cache[1].ts < 10 * 60 * 1000
             THEN ~loading' /\ products' = cache[1].products
             ELSE loading' /\ products' = <<>> /\ loadingHint' = ""]_vars

\* a snapshot whose age is exactly the TTL was found and not rendered
C22_Witness ==
    /\ fn = "mount"
    /\ cache # <<>>
    /\ now - cache[1].ts = 10 * 60 * 1000
    /\ loading
    /\ products = <<>>

C25_LoadEndsAndAbortLeavesNothing ==
    /\ [][(fn' = "failed" /\ arg' = "abort")
             => products' = products /\ cache' = cache]_vars
    /\ (loading /\ catalogReq # "none") ~> (~loading \/ catalogReq = "none")

(* C24: the completion of the catalog request, successful or not, in any    *)
(* interleaving with the cart operations, leaves the cart unchanged: the    *)
(* same entries, quantities and product snapshots before and after.         *)
C24_CatalogCompletionKeepsCart ==
    [][(\/ \E list \in Catalogs : CatalogLoaded(list)
        \/ \E kind \in {"errorField", "abort", "network"} : CatalogFailed(kind))
          => cart' = cart]_vars

\* the request was answered with another list after a product of the cached
\* list had been put into the cart: the entry still has its snapshot
C24_Witness ==
    /\ variant = "App"
    /\ catalogReq = "done"
    /\ products = CatalogB
    /\ HasKey(cart, "P1")
    /\ Get(cart, "P1").product = CatalogA[1]
    /\ Get(cart, "P1").qty = 2

\* every step of the component but the one that closes and reopens it
StepWithoutReopening ==
    \/ MountEffect
    \/ \E list \in Catalogs : CatalogLoaded(list)
    \/ \E kind \in {"errorField", "abort", "network"} : CatalogFailed(kind)
    \/ \E t \in {"catalog", "cart"} : SetTab(t)
    \/ \E p \in AllProducts : AddToCart(p)
    \/ \E id \in Ids : CartPlus(id)
    \/ \E id \in Ids, qty \in 0..MaxQty : SetQtyClick(id, qty)
    \/ \E id \in Ids : DecClick(id)
    \/ \E id \in Ids : RemoveClick(id)
    \/ GoCheckout
    \/ \E v \in NameInputs : SetCustomerName(v)
    \/ \E v \in PhoneInputs : SetPhone(v)
    \/ \E v \in AddressInputs : SetAddress(v)
    \/ \E v \in CommentInputs : SetComment(v)
    \/ BackToCart
    \/ SubmitOrder
    \/ \E o \in Outcomes : OrderResponse(o)
    \/ CloseToast

(* C26: after a catalog load error has been surfaced the page is still      *)
(* interactive and retryable: the catalog, cart and checkout views are      *)
(* rendered, or a step of the component runs the load again and takes the   *)
(* error away; the error state is not permanent.                            *)
C26_LoadErrorIsNotPermanent ==
    (Mounted /\ error # "")
        => \/ ContentShown
           \/ ENABLED (StepWithoutReopening /\ error' = "")

\* the product id a line item of a payload is about
ItemId(it) == IF "id" \in DOMAIN it THEN it.id ELSE it.product.id

(* C29: when a submission succeeds, the cart that is cleared is exactly the *)
(* cart that was snapshotted into the payload sent: no change made to the   *)
(* cart while the request was in flight is discarded without having been    *)
(* part of the order.                                                       *)
C29_ClearedCartIsTheOrderedCart ==
    [][((\E o \in Outcomes : OrderResponse(o)) /\ inFlight = 1 /\ toast' = "success")
          => LET items == sent[1].items
                 es == Entries(variant, cart)
             IN /\ Len(items) = Len(es)
                /\ \A i \in 1..Len(items) :
                      /\ ItemId(items[i]) = EntryId(variant, es[i])
                      /\ items[i].qty = es[i].qty]_vars

ClientValue == parseBody(arg.req.body).val

\* the request with the token of the client set to t, or left out
WithClientToken(req, t) ==
    LET f == parseBody(req.body).val.fields
        g == IF t = "absent"
             THEN [k \in DOMAIN f \ {"token"} |-> f[k]]
             ELSE [k \in DOMAIN f \cup {"token"} |-> IF k = "token" THEN t ELSE f[k]]
    IN [req EXCEPT !.body = [given |-> "parsed", ok |-> TRUE, val |-> JObject(g)]]

\* the body sent upstream is the object of the client with the token of
\* the server, and is the same whatever token the client sent
TokenIsInjected ==
    LET fwd == res.upstream[1]
    IN /\ fwd.kind = "object"
       /\ DOMAIN fwd.fields = DOMAIN ClientValue.fields \cup {"token"}
       /\ fwd.fields.token = arg.env.GS_API_TOKEN
       /\ \A k \in DOMAIN ClientValue.fields \ {"token"} :
              fwd.fields[k] = ClientValue.fields[k]
       /\ \A t \in {"absent", "guess", "secret", "other"} :
              forwarded(WithClientToken(arg.req, t), arg.env) = res.upstream

C30_ProxyStatusAndUpstreamCall ==
    fn = "handler" =>
       LET configured == arg.env.GS_API_URL # "" /\ arg.env.GS_API_TOKEN # ""
           called == res.upstream # <<>>
       IN /\ called => (arg.req.method = "POST" /\ configured)
          /\ ~configured => (res.status = 500 /\ ~called)
          /\ (configured /\ arg.req.method = "OPTIONS") => (res.status = 200 /\ ~called)
          /\ (configured /\ arg.req.method \notin {"POST", "OPTIONS"})
                => (res.status = 405 /\ ~called)
          /\ (called /\ ~arg.up.threw)
                => (res.status = arg.up.status /\ res.body = arg.up.text)
          /\ (called /\ arg.up.threw) => res.status = 500
          /\ (configured /\ arg.req.method = "POST" /\ ~called) => res.status = 500

\* an upstream answer with an error status was passed on as it came
C30_Witness ==
    /\ fn = "handler"
    /\ res.upstream # <<>>
    /\ ~arg.up.threw
    /\ arg.up.status = 500
    /\ res.status = 500
    /\ res.body = arg.up.text

====
